---- MODULE Spec2Model ----
(***************************************************************************)
(* A model of src/backtest.py: the portfolio simulator (run_backtest), the *)
(* buy-and-hold benchmark (calculate_buy_hold_benchmark), the metrics      *)
(* record (calculate_metrics) and the permutation test                     *)
(* (run_permutation_test).                                                 *)
(*                                                                         *)
(* Numbers are exact rationals <<numerator, denominator>> in lowest terms  *)
(* with a positive denominator.  The binary rounding of float32/float64    *)
(* arithmetic is not modelled (the specification states its equalities up  *)
(* to floating tolerance); the decimal conversions the code performs       *)
(* itself, int(...) and round(..., n), are modelled by what they do.       *)
(* A bar is represented by its Close (a natural number) and its Date by    *)
(* the bar's index.                                                        *)
(***************************************************************************)
EXTENDS Integers, Sequences, FiniteSets, TLC

VARIABLES
    data,              \* the Close column of the bar series
    signals,           \* the signal series handed to the simulator
    initial_capital,   \* the initial_capital argument
    bt,                \* the activation of run_backtest (its locals)
    metrics,           \* what calculate_metrics returned for bt's trajectory
    num_permutations,  \* the num_permutations argument
    py_random_state,   \* the state of Python's random module
    np_random_state,   \* the state of numpy's global generator
    pt,                \* the activation of run_permutation_test (its locals)
    reports            \* what the calls of run_permutation_test gave, in order

vars == <<data, signals, initial_capital, bt, metrics, num_permutations,
          py_random_state, np_random_state, pt, reports>>

inputs == <<data, signals, initial_capital, num_permutations>>
simVars == <<bt, metrics>>
permVars == <<py_random_state, np_random_state, pt, reports>>

-----------------------------------------------------------------------------
(* Bounds of the model.                                                    *)

MaxBars == 3           \* bars of a simulator run
MaxPrice == 3          \* the largest Close
MaxPermBars == 2       \* bars of a permutation-test run
MaxPermutations == 3   \* the largest num_permutations
RngPeriod == 6         \* states of numpy's generator

-----------------------------------------------------------------------------
(* Exact rational arithmetic.                                              *)

Abs(x) == IF x < 0 THEN -x ELSE x

RECURSIVE Gcd(_, _)
Gcd(a, b) == IF b = 0 THEN a ELSE Gcd(b, a % b)

Rat(n, d) ==
    LET g == Gcd(Abs(n), Abs(d))
        s == IF d < 0 THEN -1 ELSE 1
    IN  <<(s * n) \div g, (s * d) \div g>>

FromInt(k) == <<k, 1>>
Zero == <<0, 1>>
Add(a, b) == Rat(a[1] * b[2] + b[1] * a[2], a[2] * b[2])
Sub(a, b) == Rat(a[1] * b[2] - b[1] * a[2], a[2] * b[2])
\* The product, with the common factors cancelled before multiplying.
Mul(a, b) ==
    LET g == Gcd(Abs(a[1]), b[2])
        h == Gcd(Abs(b[1]), a[2])
    IN  Rat((a[1] \div g) * (b[1] \div h), (a[2] \div h) * (b[2] \div g))
Div(a, b) == Mul(a, Rat(b[2], b[1]))
Lt(a, b) == a[1] * b[2] < b[1] * a[2]
Ge(a, b) == ~Lt(a, b)
Pos(a) == a[1] > 0

RECURSIVE Pow10(_)
Pow10(n) == IF n = 0 THEN 1 ELSE 10 * Pow10(n - 1)

\* Python's int(x): truncation toward zero.
PyInt(x) == IF x[1] >= 0 THEN x[1] \div x[2] ELSE -((-x[1]) \div x[2])

\* Python's round(x, ndigits): to the nearest multiple of 10^-ndigits, a tie
\* going to the even one.
PyRound(x, ndigits) ==
    LET scale == Pow10(ndigits)
        whole == x[1] \div x[2]
        part == (x[1] % x[2]) * scale
        f == whole * scale + (part \div x[2])
        twice == 2 * (part % x[2])
        k == IF twice < x[2] THEN f
             ELSE IF twice > x[2] THEN f + 1
             ELSE IF f % 2 = 0 THEN f ELSE f + 1
    IN  Rat(k, scale)

-----------------------------------------------------------------------------
(* run_backtest.                                                           *)

\* The locals of run_backtest before its loop.  portfolio_value holds the
\* entries stored so far (the code fills a preallocated array in index order).
BacktestEntry(capital) ==
    [pc |-> "loop", i |-> 1, position |-> 0, cash |-> FromInt(capital),
     shares |-> Zero, trades |-> <<>>, portfolio_value |-> <<>>,
     error |-> "none"]

\* The except clause of run_backtest: a "Backtest execution error" carrying
\* the cause is raised and nothing is returned (the record keeps the locals
\* as they were when the cause was raised).
BacktestRaise(b, cause) ==
    [b EXCEPT !.pc = "error", !.error = cause]

Trade(date, action, price, shares) ==
    [date |-> date, action |-> action, price |-> PyRound(price, 2),
     shares |-> PyRound(shares, 4)]

\* ExecuteTrades with the Sell branch logging the trade after "shares = 0.0".
ExecuteTradesLoggingAfterReset(b, price, signal) ==
    IF signal = 1 /\ b.position = 0 THEN
        [b EXCEPT !.shares = Div(b.cash, price),
                  !.cash = Zero,
                  !.position = 1,
                  !.trades = Append(@, Trade(b.i, "BUY", price,
                                             Div(b.cash, price)))]
    ELSE IF signal = -1 /\ b.position = 1 THEN
        [b EXCEPT !.cash = Mul(b.shares, price),
                  !.shares = Zero,
                  !.trades = Append(@, Trade(b.i, "SELL", price, Zero)),
                  !.position = 0]
    ELSE b

\* ExecuteTrades with the Sell branch's "shares = 0.0" left out.
ExecuteTradesKeepingShares(b, price, signal) ==
    IF signal = 1 /\ b.position = 0 THEN
        [b EXCEPT !.shares = Div(b.cash, price),
                  !.cash = Zero,
                  !.position = 1,
                  !.trades = Append(@, Trade(b.i, "BUY", price,
                                             Div(b.cash, price)))]
    ELSE IF signal = -1 /\ b.position = 1 THEN
        [b EXCEPT !.cash = Mul(b.shares, price),
                  !.trades = Append(@, Trade(b.i, "SELL", price, b.shares)),
                  !.position = 0]
    ELSE b

\* "Execute trades": the if/elif of the loop body on one bar.
ExecuteTrades(b, price, signal) ==
    IF signal = 1 /\ b.position = 0 THEN
        [b EXCEPT !.shares = Div(b.cash, price),
                  !.cash = Zero,
                  !.position = 1,
                  !.trades = Append(@, Trade(b.i, "BUY", price,
                                             Div(b.cash, price)))]
    ELSE IF signal = -1 /\ b.position = 1 THEN
        [b EXCEPT !.cash = Mul(b.shares, price),
                  !.trades = Append(@, Trade(b.i, "SELL", price, b.shares)),
                  !.shares = Zero,
                  !.position = 0]
    ELSE b

\* MarkToMarket recording the cash balance whatever the position.
MarkToMarketCashOnly(b, price) ==
    [b EXCEPT !.portfolio_value = Append(@, b.cash), !.i = @ + 1]

\* "Calculate portfolio value" and the store into portfolio_value[i].
MarkToMarket(b, price) ==
    LET value == IF b.position = 1 THEN Mul(b.shares, price) ELSE b.cash
    IN  [b EXCEPT !.portfolio_value = Append(@, value), !.i = @ + 1]

\* One iteration of the loop, or the return after the last one.
BacktestStep(b, closes, sigs) ==
    IF b.i > Len(closes) THEN [b EXCEPT !.pc = "done"]
    ELSE IF b.i > Len(sigs) THEN BacktestRaise(b, "IndexError")
    ELSE LET price == FromInt(closes[b.i])
             signal == PyInt(sigs[b.i])
         IN  IF signal = 1 /\ b.position = 0 /\ price = Zero
             THEN BacktestRaise(b, "ZeroDivisionError")
             ELSE MarkToMarket(ExecuteTrades(b, price, signal), price)

RECURSIVE BacktestLoop(_, _, _)
BacktestLoop(b, closes, sigs) ==
    IF b.pc # "loop" THEN b
    ELSE BacktestLoop(BacktestStep(b, closes, sigs), closes, sigs)

\* run_backtest as a function of its arguments.
run_backtest(closes, sigs, capital) ==
    BacktestLoop(BacktestEntry(capital), closes, sigs)

-----------------------------------------------------------------------------
(* calculate_buy_hold_benchmark and calculate_metrics.                     *)
(* The Sharpe ratio and the maximum drawdown are floating-point statistics *)
(* (a standard deviation, a square root, numpy's inf/nan) that no property *)
(* below reads; the records carry the other fields.                        *)

Last(s) == s[Len(s)]

\* The total-return formula: (final - capital) / capital * 100.
TotalReturn(final, capital) ==
    Mul(Div(Sub(final, FromInt(capital)), FromInt(capital)), FromInt(100))

\* bh_portfolio = shares * prices.
BuyHoldPortfolio(closes, bh_shares) ==
    [k \in 1..Len(closes) |-> Mul(bh_shares, FromInt(closes[k]))]

\* The benchmark's statistic before the record is built.
BuyHoldTotalReturn(closes, capital) ==
    TotalReturn(Mul(Div(FromInt(capital), FromInt(closes[1])),
                    FromInt(Last(closes))), capital)

\* The 'total_return' entry of the record the benchmark returns.
BenchmarkTotalReturnField(closes, capital) ==
    PyRound(BuyHoldTotalReturn(closes, capital), 2)

calculate_buy_hold_benchmark(closes, capital) ==
    IF Len(closes) = 0 THEN [ok |-> FALSE, error |-> "IndexError"]
    ELSE IF closes[1] = 0 THEN [ok |-> FALSE, error |-> "ZeroDivisionError"]
    ELSE IF capital = 0 THEN [ok |-> FALSE, error |-> "ZeroDivisionError"]
    ELSE LET bh_shares == Div(FromInt(capital), FromInt(closes[1]))
             final_value == Mul(bh_shares, FromInt(Last(closes)))
         IN  [ok |-> TRUE,
              benchmark |->
                  [total_return |-> BenchmarkTotalReturnField(closes, capital),
                   final_value |-> PyRound(final_value, 2)],
              bh_portfolio |-> BuyHoldPortfolio(closes, bh_shares)]

\* alpha = total_return - benchmark['total_return'].
Alpha(total_return, benchmark) == Sub(total_return, benchmark.total_return)

calculate_metrics(pv, closes, capital) ==
    LET bh == calculate_buy_hold_benchmark(closes, capital)
    IN  IF ~bh.ok THEN [ok |-> FALSE, error |-> bh.error]
        ELSE IF Len(pv) = 0 THEN [ok |-> FALSE, error |-> "IndexError"]
        ELSE LET total_return == TotalReturn(Last(pv), capital)
                 alpha == Alpha(total_return, bh.benchmark)
             IN  [ok |-> TRUE,
                  metrics |->
                      [total_return |-> PyRound(total_return, 2),
                       win_rate |-> PyRound(Zero, 2),
                       avg_trade_return |-> PyRound(Zero, 2),
                       final_value |-> PyRound(Last(pv), 2),
                       alpha |-> PyRound(alpha, 2),
                       benchmark |-> bh.benchmark],
                  bh_portfolio |-> bh.bh_portfolio]

-----------------------------------------------------------------------------
(* run_permutation_test.                                                   *)
(* The standard deviation of the shuffled returns (a square root) is left  *)
(* out of the report; no property below reads it.                          *)

DefaultCapital == 10000
Seed == 42

\* numpy's global generator: a deterministic function of its state, which
\* nothing in the program sets.
NpAdvance(state) == (state + 1) % RngPeriod

Swap(s, a, b) == [s EXCEPT ![a] = s[b], ![b] = s[a]]

RECURSIVE NpShuffle(_, _, _)
NpShuffle(s, k, state) ==
    IF k < 2 THEN [array |-> s, state |-> state]
    ELSE NpShuffle(Swap(s, k, (state % k) + 1), k - 1, NpAdvance(state))

\* np.random.permutation(x): a shuffled copy of x and the generator's state
\* after the draws.
NpPermutation(x, state) == NpShuffle(x, Len(x), state)

\* random.seed(42): sets the state of Python's random module.
RandomSeed(state, seed) == seed

NoReport == [num_permutations |-> -1]

PermIdle ==
    [pc |-> "idle", i |-> 0, original_return |-> Zero, random_returns |-> <<>>,
     failed |-> 0, error |-> "none", report |-> NoReport]

\* The outer except clause: "Permutation test error" carrying the cause.
PermRaise(p, cause) == [p EXCEPT !.pc = "error", !.error = cause]

\* run_backtest(data, signals) as run_permutation_test calls it: without
\* initial_capital, so with the default.
PermBacktest(closes, sigs) == run_backtest(closes, sigs, DefaultCapital)

\* From the call to the loop: the original run and original_return.
PermEntry(closes, sigs, capital) ==
    LET run == PermBacktest(closes, sigs)
    IN  IF run.pc = "error" THEN PermRaise(PermIdle, run.error)
        ELSE IF Len(run.portfolio_value) = 0
        THEN PermRaise(PermIdle, "IndexError")
        ELSE IF capital = 0 THEN PermRaise(PermIdle, "ZeroDivisionError")
        ELSE [PermIdle EXCEPT
                 !.pc = "loop",
                 !.original_return =
                     TotalReturn(Last(run.portfolio_value), capital)]

\* The inner except clause: the error is printed and the loop continues.
PermSkip(p) == [p EXCEPT !.i = @ + 1, !.failed = @ + 1]

\* One iteration of the loop on the shuffled signals.
PermIteration(p, closes, shuffled_signals, capital) ==
    LET run == PermBacktest(closes, shuffled_signals)
    IN  IF run.pc = "error" THEN PermSkip(p)
        ELSE [p EXCEPT
                 !.i = @ + 1,
                 !.random_returns =
                     Append(@, TotalReturn(Last(run.portfolio_value), capital))]

RECURSIVE Sum(_)
Sum(s) == IF Len(s) = 0 THEN Zero ELSE Add(s[1], Sum(Tail(s)))

Mean(s) == Div(Sum(s), FromInt(Len(s)))

\* BetterCount with a strict comparison: a tie does not count.
BetterCountStrict(random_returns, original_return) ==
    Cardinality({k \in DOMAIN random_returns :
                     Lt(original_return, random_returns[k])})

\* better_count = sum(random_returns >= original_return).
BetterCount(random_returns, original_return) ==
    Cardinality({k \in DOMAIN random_returns :
                     Ge(random_returns[k], original_return)})

\* p_value = better_count / len(random_returns).
PValue(random_returns, original_return) ==
    Rat(BetterCount(random_returns, original_return), Len(random_returns))

\* p_value < 0.05.
Significant(p_value) == Lt(p_value, Rat(5, 100))

\* ReportedPermutations giving the number of iterations run instead of the
\* number that succeeded.
ReportedRequested(p) == p.i

\* The report's 'num_permutations'.
ReportedPermutations(p) == Len(p.random_returns)

\* After the loop: the check for an empty sample and the report.
PermFinish(p) ==
    IF Len(p.random_returns) = 0
    THEN PermRaise(p, "No valid permutation results generated")
    ELSE LET p_value == PValue(p.random_returns, p.original_return)
             percentile == Mul(Sub(FromInt(1), p_value), FromInt(100))
         IN  [p EXCEPT
                 !.pc = "done",
                 !.report =
                     [original_return |-> PyRound(p.original_return, 2),
                      random_returns_mean |->
                          PyRound(Mean(p.random_returns), 2),
                      p_value |-> PyRound(p_value, 4),
                      percentile |-> PyRound(percentile, 1),
                      num_permutations |-> ReportedPermutations(p),
                      significant |-> Significant(p_value)]]

\* What a finished call gave its caller.
PermResult(p) ==
    IF p.pc = "done" THEN [ok |-> TRUE, report |-> p.report]
    ELSE [ok |-> FALSE, error |-> p.error]

-----------------------------------------------------------------------------
(* The inputs.                                                             *)

\* Close prices; 0 is a price the loader accepts.
Prices == 0..MaxPrice

BarSeries(maxlen) == UNION {[1..n -> Prices] : n \in 0..maxlen}

Buy == FromInt(1)
Sell == FromInt(-1)
Hold == FromInt(0)

\* The three signal values and two values outside the domain: 3/2, which
\* int() truncates to 1, and 2.
SignalValues == {Sell, Hold, Buy, <<3, 2>>, FromInt(2)}

\* A signal series of the bars' length, one shorter, or one longer.
SignalLengthsFor(closes) ==
    {m \in {Len(closes) - 1, Len(closes), Len(closes) + 1} : m >= 0}

Idle ==
    [pc |-> "idle", i |-> 0, position |-> 0, cash |-> Zero, shares |-> Zero,
     trades |-> <<>>, portfolio_value |-> <<>>, error |-> "none"]

NoMetrics == [ok |-> FALSE, error |-> "not called"]

NothingRun ==
    /\ bt = Idle
    /\ metrics = NoMetrics
    /\ py_random_state = 0
    /\ pt = PermIdle
    /\ reports = <<>>

\* The inputs of the simulator's contract: a non-empty bar series, one
\* signal per bar, a positive capital.  The values of the signals are not
\* restricted.
Init ==
    /\ data \in BarSeries(MaxBars) \ {<<>>}
    /\ signals \in [1..Len(data) -> SignalValues]
    /\ initial_capital \in {1, DefaultCapital}
    /\ num_permutations = 0
    /\ np_random_state = 0
    /\ NothingRun

\* Any arguments: an empty bar series, a signal series shorter or longer
\* than the bars, a capital that is zero or negative.
InitAnyInput ==
    /\ data \in BarSeries(MaxBars)
    /\ \E n \in SignalLengthsFor(data) : signals \in [1..n -> SignalValues]
    /\ initial_capital \in {-1, 0, 1, DefaultCapital}
    /\ num_permutations = 0
    /\ np_random_state = 0
    /\ NothingRun

\* The inputs of a permutation test: signals as execute_strategy hands them
\* over (one per bar), and numpy's generator in whatever state it is in.
InitPerm ==
    /\ data \in BarSeries(MaxPermBars)
    /\ signals \in [1..Len(data) -> {Sell, Hold, Buy}]
    /\ initial_capital \in {DefaultCapital \div 2, DefaultCapital}
    /\ num_permutations \in 0..MaxPermutations
    /\ np_random_state \in 0..(RngPeriod - 1)
    /\ NothingRun

-----------------------------------------------------------------------------
(* The simulator run: a caller hands (data, signals, initial_capital) to   *)
(* run_backtest and, when it returns, its trajectory to calculate_metrics. *)

\* The call: the statements of run_backtest before the loop.
Call ==
    /\ bt.pc = "idle"
    /\ bt' = BacktestEntry(initial_capital)
    /\ UNCHANGED <<inputs, metrics, permVars>>

\* One bar of the loop that completes.
Bar ==
    /\ bt.pc = "loop"
    /\ bt.i <= Len(data)
    /\ BacktestStep(bt, data, signals).pc = "loop"
    /\ bt' = BacktestStep(bt, data, signals)
    /\ UNCHANGED <<inputs, metrics, permVars>>

\* A bar whose processing raises.
Raise ==
    /\ bt.pc = "loop"
    /\ bt.i <= Len(data)
    /\ BacktestStep(bt, data, signals).pc = "error"
    /\ bt' = BacktestStep(bt, data, signals)
    /\ UNCHANGED <<inputs, metrics, permVars>>

\* The return of (portfolio_value, trades) after the last bar.
Return ==
    /\ bt.pc = "loop"
    /\ bt.i > Len(data)
    /\ bt' = BacktestStep(bt, data, signals)
    /\ UNCHANGED <<inputs, metrics, permVars>>

\* calculate_metrics on the returned trajectory.
Metrics ==
    /\ bt.pc = "done"
    /\ metrics = NoMetrics
    /\ metrics' = calculate_metrics(bt.portfolio_value, data, initial_capital)
    /\ UNCHANGED <<inputs, bt, permVars>>

Next == Call \/ Bar \/ Raise \/ Return \/ Metrics

Spec == Init /\ [][Next]_vars

SpecAnyInput == InitAnyInput /\ [][Next]_vars

-----------------------------------------------------------------------------
(* The permutation test, called twice in one process on the same inputs.   *)

\* The call whose original run succeeds: up to random.seed(42).
PermCall ==
    /\ pt.pc \in {"idle", "done", "error"}
    /\ Len(reports) < 2
    /\ PermEntry(data, signals, initial_capital).pc = "loop"
    /\ pt' = PermEntry(data, signals, initial_capital)
    /\ py_random_state' = RandomSeed(py_random_state, Seed)
    /\ UNCHANGED <<inputs, simVars, np_random_state, reports>>

\* The call whose original run raises.
PermCallRaises ==
    /\ pt.pc \in {"idle", "done", "error"}
    /\ Len(reports) < 2
    /\ PermEntry(data, signals, initial_capital).pc = "error"
    /\ pt' = PermEntry(data, signals, initial_capital)
    /\ reports' = Append(reports, PermResult(pt'))
    /\ UNCHANGED <<inputs, simVars, py_random_state, np_random_state>>

\* One iteration of the loop: shuffle, simulate, record or skip.
PermIterate ==
    /\ pt.pc = "loop"
    /\ pt.i < num_permutations
    /\ LET shuffled == NpPermutation(signals, np_random_state)
       IN  /\ np_random_state' = shuffled.state
           /\ pt' = PermIteration(pt, data, shuffled.array, initial_capital)
    /\ UNCHANGED <<inputs, simVars, py_random_state, reports>>

\* After the loop: the report, or the error for an empty sample.
PermReturn ==
    /\ pt.pc = "loop"
    /\ pt.i >= num_permutations
    /\ pt' = PermFinish(pt)
    /\ reports' = Append(reports, PermResult(pt'))
    /\ UNCHANGED <<inputs, simVars, py_random_state, np_random_state>>

NextPerm == PermCall \/ PermCallRaises \/ PermIterate \/ PermReturn

SpecPerm == InitPerm /\ [][NextPerm]_vars

-----------------------------------------------------------------------------
(* Properties of the simulator.                                            *)

\* A bar has been processed and its equity recorded.
BarProcessed == bt.pc \in {"loop", "done"} /\ Len(bt.portfolio_value) > 0

\* The Close of the bar processed last.
LastClose == FromInt(data[Len(bt.portfolio_value)])

ExactlyOne(p, q) == (p \/ q) /\ ~(p /\ q)

\* The invariant of the data model: exactly one of cash > 0 and shares > 0,
\* mirroring the position.
PositionMirrored ==
    /\ ExactlyOne(Pos(bt.cash), Pos(bt.shares))
    /\ bt.position = 0 <=>
           (bt.shares = Zero /\ bt.cash = Last(bt.portfolio_value))
    /\ bt.position = 1 <=> (bt.cash = Zero /\ Pos(bt.shares))

\* No Sell has been executed at a Close of 0.
NoSellAtZero ==
    \A k \in DOMAIN bt.trades :
        ~(bt.trades[k].action = "SELL" /\ bt.trades[k].price = Zero)

BuyThenHold(n) == [k \in 1..n |-> IF k = 1 THEN Buy ELSE Hold]

\* C2: on the signal series [Buy, Hold, ..., Hold] run_backtest returns the
\* trajectory calculate_buy_hold_benchmark returns for the same bars and
\* capital, element for element (and raises exactly when the benchmark
\* raises).
C2_BuyHoldEquivalence ==
    (signals = BuyThenHold(Len(data)) /\ bt.pc \in {"done", "error"}) =>
        LET bh == calculate_buy_hold_benchmark(data, initial_capital)
        IN  /\ bt.pc = "error" <=> ~bh.ok
            /\ bt.pc = "done" =>
                   /\ Len(bt.portfolio_value) = Len(data)
                   /\ \A k \in 1..Len(data) :
                          bt.portfolio_value[k] = bh.bh_portfolio[k]

\* C2's case: the run on [Buy, Hold, Hold] over three bars whose Close
\* moves has returned.
C2_Witness ==
    /\ signals = BuyThenHold(Len(data))
    /\ bt.pc = "done"
    /\ Len(data) >= 3
    /\ data[1] # data[2]
    /\ data[2] # data[3]
    /\ data[3] # 0

\* C3 as stated: run_backtest never returns a trajectory when the signal
\* series and the bar series differ in length (the bars being non-empty and
\* the capital positive, so that the length is all that is wrong).
C3_LengthMismatchRejected ==
    (Len(signals) # Len(data) /\ Len(data) > 0 /\ initial_capital > 0) =>
        bt.pc # "done"

\* C4 as stated: with an empty bar series or initial_capital <= 0 (and one
\* signal per bar, so that nothing else is wrong) no bar is processed and
\* nothing is returned.
C4_InvalidInputRejected ==
    ((Len(data) = 0 \/ initial_capital <= 0) /\ Len(signals) = Len(data)) =>
        (bt.pc # "done" /\ Len(bt.portfolio_value) = 0)

\* C9 as stated: alpha is the unrounded strategy return minus the unrounded
\* benchmark return, rounded once to 2 decimals.
C9_AlphaRoundedOnce ==
    metrics.ok =>
        metrics.metrics.alpha =
            PyRound(Sub(TotalReturn(Last(bt.portfolio_value), initial_capital),
                        BuyHoldTotalReturn(data, initial_capital)), 2)

\* The (signal, position) pairs C10 speaks of: neither (Buy, Flat) nor
\* (Sell, Long).
NotActionable(signal, position) ==
    /\ ~(signal = Buy /\ position = 0)
    /\ ~(signal = Sell /\ position = 1)

\* The bar's mark-to-market equity for the position held before the bar.
EquityAt(b, close) ==
    IF b.position = 1 THEN Mul(b.shares, FromInt(close)) ELSE b.cash

\* The step C10 requires of a bar whose pair is not actionable: nothing is
\* raised, position, cash, shares and trades stay, the equity is appended.
NoOpStep ==
    (bt.pc = "loop" /\ bt.i <= Len(data)
        /\ NotActionable(signals[bt.i], bt.position)) =>
        /\ bt'.pc = "loop"
        /\ bt'.position = bt.position
        /\ bt'.cash = bt.cash
        /\ bt'.shares = bt.shares
        /\ bt'.trades = bt.trades
        /\ bt'.portfolio_value =
               Append(bt.portfolio_value, EquityAt(bt, data[bt.i]))

\* The consequence C10 draws: an all-Hold series returns a trajectory
\* constant at initial_capital and an empty trade log.
AllHoldConstant ==
    (bt.pc = "done" /\ \A k \in DOMAIN signals : signals[k] = Hold) =>
        /\ bt.trades = <<>>
        /\ \A k \in DOMAIN bt.portfolio_value :
               bt.portfolio_value[k] = FromInt(initial_capital)

\* C10 as stated: every bar whose (signal, position) pair is neither
\* (Buy, Flat) nor (Sell, Long), a signal value outside {-1, 0, 1} included,
\* leaves position, cash, shares and the trade log unchanged, raises
\* nothing and appends the bar's equity; an all-Hold series gives a constant
\* trajectory and no trade.
C10_NoOpFrame == []AllHoldConstant /\ [][NoOpStep]_vars

\* The number of trades of the log with the given action.
CountOf(action) ==
    Cardinality({k \in DOMAIN bt.trades : bt.trades[k].action = action})

\* C11: at every point of a run, and so in the log returned, the trades
\* alternate BUY, SELL, BUY, ... starting with BUY; no bar carries two trades
\* (their dates strictly increase and there are no more trades than bars
\* processed, so at most len(bars)); each SELL records the share count of the
\* BUY just before it; and the BUYs outnumber the SELLs by 1 when the
\* position is Long and by 0 when it is Flat.
C11_TradeLogAlternates ==
    bt.pc \in {"loop", "done"} =>
        /\ \A k \in DOMAIN bt.trades :
               bt.trades[k].action = IF k % 2 = 1 THEN "BUY" ELSE "SELL"
        /\ \A k \in DOMAIN bt.trades :
               k > 1 => bt.trades[k - 1].date < bt.trades[k].date
        /\ Len(bt.trades) <= Len(bt.portfolio_value)
        /\ Len(bt.trades) <= Len(data)
        /\ \A k \in DOMAIN bt.trades :
               k % 2 = 0 => bt.trades[k].shares = bt.trades[k - 1].shares
        /\ CountOf("BUY") - CountOf("SELL") = bt.position

\* C11's case: a run has returned Long after a BUY, a SELL and a second
\* BUY, the first pair recording a share count that is not 0.
C11_Witness ==
    /\ bt.pc = "done"
    /\ bt.position = 1
    /\ Len(bt.trades) = 3
    /\ bt.trades[2].shares # Zero
    /\ bt.trades[2].shares = bt.trades[1].shares

-----------------------------------------------------------------------------
(* Properties of the permutation test.                                     *)

NoValidPermutations == "No valid permutation results generated"

\* C5 as stated: two calls of run_permutation_test on the same inputs give
\* the same result, whatever state the random sources were in.
C5_Deterministic == Len(reports) = 2 => reports[1] = reports[2]

\* The return of a simulation of `sigs` that starts with initial_capital.
ReturnFrom(sigs) ==
    TotalReturn(Last(run_backtest(data, sigs, initial_capital).portfolio_value),
                initial_capital)

\* C6 as stated: original_return is the total return of a simulation that
\* starts with the initial_capital handed to run_permutation_test, so 0 for
\* an all-Hold signal series.
C6_ReturnsUseInitialCapital ==
    pt.pc \in {"loop", "done"} =>
        /\ pt.original_return = ReturnFrom(signals)
        /\ (\A k \in DOMAIN signals : signals[k] = Hold) =>
               pt.original_return = Zero

\* C7: a failing iteration is skipped and the loop goes on to the last
\* iteration; the report's num_permutations is the number of iterations
\* that succeeded (requested minus failed, at most the requested count);
\* the call fails with NoValidPermutations exactly when the loop ended with
\* no successful iteration, and no iteration's own failure is raised.
C7_SkipAndCount ==
    /\ pt.pc = "loop" =>
           /\ pt.i <= num_permutations
           /\ Len(pt.random_returns) + pt.failed = pt.i
    /\ pt.pc = "done" =>
           /\ pt.i = num_permutations
           /\ pt.report.num_permutations = num_permutations - pt.failed
           /\ pt.report.num_permutations <= num_permutations
           /\ pt.report.num_permutations > 0
    /\ (pt.pc = "error" /\ pt.error = NoValidPermutations) =>
           /\ pt.i = num_permutations
           /\ pt.failed = num_permutations
    /\ (pt.pc = "error" /\ pt.error # NoValidPermutations) =>
           (pt.i = 0 /\ pt.failed = 0)

\* C7's case: a call has returned a report although an iteration failed.
C7_Witness ==
    /\ pt.pc = "done"
    /\ pt.failed > 0
    /\ pt.report.num_permutations = num_permutations - pt.failed

\* The number of recorded returns that are not below the original's.
TiesAndBetter ==
    Cardinality({k \in DOMAIN pt.random_returns :
                     ~Lt(pt.random_returns[k], pt.original_return)})

\* The ratio C8 names.
Ratio == Rat(TiesAndBetter, Len(pt.random_returns))

AllTie ==
    \A k \in DOMAIN pt.random_returns :
        pt.random_returns[k] = pt.original_return

\* C8 as stated: the report's p_value is the ratio itself.
C8_PValueIsRatio ==
    pt.pc = "done" =>
        /\ pt.report.p_value = Ratio
        /\ pt.report.significant <=> Lt(Ratio, Rat(5, 100))
        /\ AllTie => (pt.report.p_value = FromInt(1)
                      /\ ~pt.report.significant)

\* C8 amended: the report's p_value is the ratio (ties counted) rounded to
\* 4 decimals; significant is decided on the unrounded ratio, true exactly
\* when it is < 0.05; when every shuffled return ties the original the
\* p_value is 1 and significant is false.
C8_PValueIsRoundedRatio ==
    pt.pc = "done" =>
        /\ pt.report.p_value = PyRound(Ratio, 4)
        /\ pt.report.significant <=> Lt(Ratio, Rat(5, 100))
        /\ AllTie => (pt.report.p_value = FromInt(1)
                      /\ ~pt.report.significant)

\* C8's case: three shuffled runs succeeded, one of them ties the original
\* and counts, the other two fall below it.
C8_Witness ==
    /\ pt.pc = "done"
    /\ Len(pt.random_returns) = 3
    /\ TiesAndBetter = 1
    /\ \E k \in DOMAIN pt.random_returns :
           pt.random_returns[k] = pt.original_return

====
